---- MODULE Spec2Model ----
(***************************************************************************)
(* Printer-fee billing (src/app0213.py): input validation, fee            *)
(* calculation, ledger export and the calculate / export / clear-history  *)
(* handlers over the SQLite store.                                         *)
(*                                                                         *)
(* Money is held in fixed point: Scale units per yuan (1 unit = 0.001),   *)
(* so a cent is CentUnits units.  Page counts are plain integers.          *)
(* Strings are sequences of one-character strings.                         *)
(***************************************************************************)
EXTENDS Integers, Sequences, FiniteSets, TLC

Scale == 10 * 10 * 10
CentUnits == Scale \div (10 * 10)

(***************************************************************************)
(* Values of a JSON request body (request.get_json()).  A key that is      *)
(* absent from the mapping is JMissing; JSON null is JNull.                *)
(***************************************************************************)
JMissing == [kind |-> "missing", m |-> 0, s |-> << >>]
JNull == [kind |-> "null", m |-> 0, s |-> << >>]
JInt(i) == [kind |-> "int", m |-> i * Scale, s |-> << >>]
JFloat(m) == [kind |-> "float", m |-> m, s |-> << >>]
JStr(s) == [kind |-> "str", m |-> 0, s |-> s]

\* dict.get(key, default)
Get(data, key, default) ==
    IF data[key].kind = "missing" THEN default ELSE data[key]

(***************************************************************************)
(* str.strip(), int(), float()                                             *)
(***************************************************************************)
IsSpace(c) == c = " "

RECURSIVE LStrip(_)
LStrip(s) ==
    IF s # << >> /\ IsSpace(Head(s)) THEN LStrip(Tail(s)) ELSE s

RECURSIVE RStrip(_)
RStrip(s) ==
    IF s # << >> /\ IsSpace(s[Len(s)])
    THEN RStrip(SubSeq(s, 1, Len(s) - 1))
    ELSE s

Strip(s) == RStrip(LStrip(s))

Digits == <<"0", "1", "2", "3", "4", "5", "6", "7", "8", "9">>

IsDigit(c) == \E i \in 1..Len(Digits) : Digits[i] = c

DigitVal(c) == (CHOOSE i \in 1..Len(Digits) : Digits[i] = c) - 1

AllDigits(t) == \A i \in 1..Len(t) : IsDigit(t[i])

RECURSIVE DigitsVal(_)
DigitsVal(t) ==
    IF t = << >> THEN 0
    ELSE 10 * DigitsVal(SubSeq(t, 1, Len(t) - 1)) + DigitVal(t[Len(t)])

HasSign(t) == t # << >> /\ (t[1] = "-" \/ t[1] = "+")
Unsigned(t) == IF HasSign(t) THEN Tail(t) ELSE t
SignOf(t) == IF t # << >> /\ t[1] = "-" THEN -1 ELSE 1

\* int("..."): optional surrounding whitespace, optional sign, digits
IsIntLiteral(s) ==
    LET t == Unsigned(Strip(s)) IN t # << >> /\ AllDigits(t)

IntLiteralVal(s) ==
    LET t == Strip(s) IN SignOf(t) * DigitsVal(Unsigned(t))

DotPositions(t) == {i \in 1..Len(t) : t[i] = "."}

\* float("..."): as int, or digits with one decimal point and a digit on
\* at least one side of it (exponents, inf and nan are not modelled)
IsFloatLiteral(s) ==
    LET t == Unsigned(Strip(s))
        dots == DotPositions(t)
    IN  \/ (t # << >> /\ AllDigits(t))
        \/ /\ Cardinality(dots) = 1
           /\ Len(t) > 1
           /\ LET p == CHOOSE i \in dots : TRUE
              IN  AllDigits(SubSeq(t, 1, p - 1)) /\ AllDigits(SubSeq(t, p + 1, Len(t)))

\* the fraction digits as units of 1/Scale (three digits kept)
FracUnits(fp) ==
    LET padded == SubSeq(fp \o <<"0", "0", "0">>, 1, 3) IN DigitsVal(padded)

FloatLiteralVal(s) ==
    LET st == Strip(s)
        t == Unsigned(st)
        dots == DotPositions(t)
    IN  IF dots = {} THEN SignOf(st) * DigitsVal(t) * Scale
        ELSE LET p == CHOOSE i \in dots : TRUE
             IN  SignOf(st) * (DigitsVal(SubSeq(t, 1, p - 1)) * Scale
                               + FracUnits(SubSeq(t, p + 1, Len(t))))

Ok(v) == [exc |-> "none", val |-> v]
Raise(e) == [exc |-> e, val |-> 0]

\* float(x), the value in units of 1/Scale
PyFloat(v) ==
    CASE v.kind = "int" -> Ok(v.m)
      [] v.kind = "float" -> Ok(v.m)
      [] v.kind = "str" ->
            IF IsFloatLiteral(v.s) THEN Ok(FloatLiteralVal(v.s)) ELSE Raise("ValueError")
      [] OTHER -> Raise("TypeError")

TruncDiv(m, d) == IF m >= 0 THEN m \div d ELSE -((-m) \div d)

\* int(x): a float is truncated toward zero, a string must be an int literal
PyInt(v) ==
    CASE v.kind = "int" -> Ok(TruncDiv(v.m, Scale))
      [] v.kind = "float" -> Ok(TruncDiv(v.m, Scale))
      [] v.kind = "str" ->
            IF IsIntLiteral(v.s) THEN Ok(IntLiteralVal(v.s)) ELSE Raise("ValueError")
      [] OTHER -> Raise("TypeError")

RECURSIVE FirstExc(_)
\* the exception of the first conversion, in evaluation order, that raises
FirstExc(rs) ==
    IF rs = << >> THEN "none"
    ELSE IF Head(rs).exc # "none" THEN Head(rs).exc
    ELSE FirstExc(Tail(rs))

(***************************************************************************)
(* Configuration and messages                                              *)
(***************************************************************************)
\* DEFAULT_CONFIG prices 0.06 and 0.6 yuan per page, in units of 1/Scale
black_overprint_price == 60
color_overprint_price == 600

default_period ==
    <<"2", "0", "2", "6", ".", "0", "1", ".", "0", "1", "-",
      "2", "0", "2", "6", ".", "0", "2", ".", "2", "8">>

DEFAULT_CONFIG ==
    [black_overprint_price |-> black_overprint_price,
     color_overprint_price |-> color_overprint_price,
     default_period |-> default_period]

\* the two-character default invoice type, one element per character
DefaultInvoiceType == <<"zeng", "shui">>
DefaultFirstDate == <<"2", "0", "2", "5", ".", "1", "0", ".", "3", "1">>
DefaultSecondDate == <<"2", "0", "2", "5", ".", "1", "2", ".", "3", "1">>

\* the messages of validate_inputs and export_to_excel, by what they say
ErrCompanyEmpty == "company name must not be empty"
ErrNumber == "number input error"
WarnBlack == "second black reading must not be less than the first"
WarnColor == "second color reading must not be less than the first"
ErrNoData == "no calculation data to export"
ErrMeterKeyEmpty == "company name, model and serial must not be empty"
ErrNoMeterData == "no earlier meter data"

(***************************************************************************)
(* validate_inputs                                                         *)
(***************************************************************************)
numeric_fields ==
    <<"first_black", "first_color", "second_black", "second_color",
      "package_black", "package_color", "basic_fee">>

\* the readings converted by int() after the float() loop, in source order
reading_fields == <<"first_black", "second_black", "first_color", "second_color">>

ValidateWarnings(first_black, second_black, first_color, second_color) ==
    (IF second_black < first_black THEN <<WarnBlack>> ELSE << >>)
    \o (IF second_color < first_color THEN <<WarnColor>> ELSE << >>)

\* the conversions validate_inputs performs, in the order it performs them
ValidateConversions(data) ==
    [i \in 1..Len(numeric_fields) |-> PyFloat(Get(data, numeric_fields[i], JInt(0)))]
    \o [i \in 1..Len(reading_fields) |-> PyInt(Get(data, reading_fields[i], JInt(0)))]

\* which exception types the except clause of validate_inputs turns into
\* a structured result
ValidateCatches(exc) == exc = "ValueError"

\* raised = "none": the function returned {valid, error | warnings};
\* otherwise the exception that left it
validate_inputs(data) ==
    LET name == Get(data, "company_name", JStr(<< >>))
        exc == FirstExc(ValidateConversions(data))
        first_black == PyInt(Get(data, "first_black", JInt(0))).val
        second_black == PyInt(Get(data, "second_black", JInt(0))).val
        first_color == PyInt(Get(data, "first_color", JInt(0))).val
        second_color == PyInt(Get(data, "second_color", JInt(0))).val
        invalid(msg) == [raised |-> "none", valid |-> FALSE, error |-> msg, warnings |-> << >>]
        raises(e) == [raised |-> e, valid |-> FALSE, error |-> "none", warnings |-> << >>]
    IN  IF name.kind # "str" THEN raises("AttributeError")
        ELSE IF Strip(name.s) = << >> THEN invalid(ErrCompanyEmpty)
        ELSE IF exc # "none"
             THEN IF ValidateCatches(exc) THEN invalid(ErrNumber) ELSE raises(exc)
        ELSE [raised |-> "none", valid |-> TRUE, error |-> "none",
              warnings |-> ValidateWarnings(first_black, second_black,
                                            first_color, second_color)]

(***************************************************************************)
(* calculate_cost                                                          *)
(***************************************************************************)
\* round(x, 2) on a value in units of 1/Scale: to the nearest cent; the
\* result is again in units.  An exact half goes to the even cent here;
\* on binary floats the representation of the value decides it, and the
\* amounts drawn below (even numbers of units) never produce one.
Round2(u) ==
    LET q == u \div CentUnits
        r == u % CentUnits
    IN  IF 2 * r < CentUnits THEN q * CentUnits
        ELSE IF 2 * r > CentUnits THEN (q + 1) * CentUnits
        ELSE IF q % 2 = 0 THEN q * CentUnits
        ELSE (q + 1) * CentUnits

Max(a, b) == IF a >= b THEN a ELSE b

\* Over with its floor at 0 forgotten
OverNoFloor(used, package) == used - package

Over(used, package) == Max(used - package, 0)

\* OverFee with its rounding forgotten
OverFeeUnrounded(over, price) == over * price

OverFee(over, price) == Round2(over * price)

TotalFee(over_fee_black, over_fee_color, basic_fee) ==
    Round2(over_fee_black + over_fee_color + basic_fee)

\* DefaultOf with every text field defaulting to the empty string
DefaultOfEmpty(field) == JStr(<< >>)

\* the defaults of the text fields of calculate_cost
DefaultOf(field) ==
    CASE field = "invoice_type" -> JStr(DefaultInvoiceType)
      [] field = "first_date" -> JStr(DefaultFirstDate)
      [] field = "second_date" -> JStr(DefaultSecondDate)
      [] OTHER -> JStr(<< >>)

\* the conversions calculate_cost performs, in the order it performs them
CostConversions(data, config) ==
    <<PyInt(Get(data, "first_black", JInt(0))),
      PyInt(Get(data, "first_color", JInt(0))),
      PyInt(Get(data, "second_black", JInt(0))),
      PyInt(Get(data, "second_color", JInt(0))),
      PyInt(Get(data, "package_black", JInt(0))),
      PyInt(Get(data, "package_color", JInt(0))),
      PyFloat(Get(data, "basic_fee", JInt(0))),
      PyFloat(Get(data, "black_price", JFloat(config.black_overprint_price))),
      PyFloat(Get(data, "color_price", JFloat(config.color_overprint_price)))>>

NoRecord == [company_name |-> JNull]

\* now: datetime.now() to the second
calculate_cost(data, config, now) ==
    LET c == CostConversions(data, config)
        exc == FirstExc(c)
        first_black == c[1].val
        first_color == c[2].val
        second_black == c[3].val
        second_color == c[4].val
        package_black == c[5].val
        package_color == c[6].val
        basic_fee == c[7].val
        black_price == c[8].val
        color_price == c[9].val
        used_black == second_black - first_black
        used_color == second_color - first_color
        over_black == Over(used_black, package_black)
        over_color == Over(used_color, package_color)
        over_fee_black == OverFee(over_black, black_price)
        over_fee_color == OverFee(over_color, color_price)
        total_fee == TotalFee(over_fee_black, over_fee_color, basic_fee)
    IN  IF exc # "none"
        THEN [success |-> FALSE, error |-> exc, data |-> NoRecord, warnings |-> << >>]
        ELSE [success |-> TRUE, error |-> "none", warnings |-> << >>,
              data |->
                [customer_id |-> Get(data, "customer_id", JInt(0)),
                 company_name |-> Get(data, "company_name", DefaultOf("company_name")),
                 invoice_type |-> Get(data, "invoice_type", DefaultOf("invoice_type")),
                 location |-> Get(data, "location", DefaultOf("location")),
                 ip |-> Get(data, "ip", DefaultOf("ip")),
                 model |-> Get(data, "model", DefaultOf("model")),
                 serial |-> Get(data, "serial", DefaultOf("serial")),
                 first_date |-> Get(data, "first_date", DefaultOf("first_date")),
                 second_date |-> Get(data, "second_date", DefaultOf("second_date")),
                 first_black |-> first_black,
                 first_color |-> first_color,
                 second_black |-> second_black,
                 second_color |-> second_color,
                 package_black |-> package_black,
                 package_color |-> package_color,
                 basic_fee |-> basic_fee,
                 used_black |-> used_black,
                 used_color |-> used_color,
                 over_black |-> over_black,
                 over_color |-> over_color,
                 over_fee_black |-> over_fee_black,
                 over_fee_color |-> over_fee_color,
                 total_fee |-> total_fee,
                 period |-> Get(data, "period", JStr(config.default_period)),
                 black_price |-> black_price,
                 color_price |-> color_price,
                 calculate_time |-> now]]

(***************************************************************************)
(* State                                                                   *)
(***************************************************************************)
VARIABLES
    data,                 \* the request mapping handed to validate_inputs / calculate_cost
    vres,                 \* what validate_inputs(data) did
    cres,                 \* what calculate_cost(data) returned
    data_list,            \* the rows handed to the export
    eres,                 \* what export_to_excel returned
    customers,            \* table customers, in rowid order (id, company_name, invoice_type)
    calculation_history,  \* table calculation_history, in rowid order
    customer_seq,         \* AUTOINCREMENT counter of customers
    history_seq,          \* AUTOINCREMENT counter of calculation_history
    now,                  \* datetime.now(), in seconds
    pc,                   \* where each request handler of /api/calculate stands
    req,                  \* the JSON body each handler works on
    found,                \* the result of each handler's SELECT in add_or_update_customer
    resp                  \* the last response sent

coreVars == <<data, vres, cres, data_list, eres>>
storeVars == <<customers, calculation_history, customer_seq, history_seq>>
apiVars == <<now, pc, req, found, resp>>
vars == <<coreVars, storeVars, apiVars>>

\* "not yet called", in the shape of each result
VPending == [raised |-> "pending", valid |-> FALSE, error |-> "none", warnings |-> << >>]
CPending == [success |-> FALSE, error |-> "pending", data |-> NoRecord, warnings |-> << >>]
EPending == [success |-> FALSE, error |-> "pending"]

(***************************************************************************)
(* The store after init_db and the idle server                             *)
(***************************************************************************)
Procs == {"h1", "h2"}

NoRequest == [company_name |-> JMissing]
NoResponse ==
    [op |-> "none", status |-> 0, request |-> NoRequest,
     body |-> [success |-> FALSE, error |-> "none"]]

StoreInit ==
    /\ customers = << >>
    /\ calculation_history = << >>
    /\ customer_seq = 0
    /\ history_seq = 0

ApiInit ==
    /\ now = 1
    /\ pc = [p \in Procs |-> "idle"]
    /\ req = [p \in Procs |-> NoRequest]
    /\ found = [p \in Procs |-> 0]
    /\ resp = NoResponse

(***************************************************************************)
(* add_calculation, get_all_calculations                                   *)
(***************************************************************************)
\* the row INSERTed for a calculated record: its columns and the new id
\* (customer_id is an INTEGER column, the text columns hold text or NULL)
HistoryRow(d, id) ==
    [f \in DOMAIN d \cup {"id"} |->
        IF f = "id" THEN id
        ELSE IF f = "customer_id" THEN d.customer_id.m \div Scale
        ELSE d[f]]

\* add_calculation writing over the stored rows instead of appending
add_calculationOverwriting(history, d, id) ==
    [i \in 1..Max(Len(history), 1) |-> HistoryRow(d, id)]

add_calculation(history, d, id) == Append(history, HistoryRow(d, id))

\* the orders in which rows 1..n can stand
Orders(n) == {o \in [1..n -> 1..n] : \A i, j \in 1..n : i # j => o[i] # o[j]}

\* SELECT * ... ORDER BY calculate_time DESC: every row once, later
\* calculate_time first; rows of the same second in any order
get_all_calculations(history) ==
    {[i \in 1..Len(history) |-> history[o[i]]] :
        o \in {q \in Orders(Len(history)) :
                 \A i, j \in 1..Len(history) :
                    i < j => history[q[i]].calculate_time >= history[q[j]].calculate_time}}

(***************************************************************************)
(* get_last_meter_data                                                     *)
(***************************************************************************)
\* WHERE company_name = ? AND model = ? AND serial = ?
MeterRows(history, company_name, model, serial) ==
    {i \in 1..Len(history) :
        /\ history[i].company_name = JStr(company_name)
        /\ history[i].model = JStr(model)
        /\ history[i].serial = JStr(serial)}

\* ORDER BY calculate_time DESC LIMIT 1: a row of the latest second; which
\* one of several rows of that second is not determined by the query
LastMeterRows(history, company_name, model, serial) ==
    LET rows == MeterRows(history, company_name, model, serial)
    IN  {i \in rows : \A j \in rows : history[i].calculate_time >= history[j].calculate_time}

MeterData(row) ==
    [last_black |-> row.second_black,
     last_color |-> row.second_color,
     last_date |-> row.second_date]

\* the results the function can return; << >> stands for None
get_last_meter_data(history, company_name, model, serial) ==
    IF MeterRows(history, company_name, model, serial) = {}
    THEN {<< >>}
    ELSE {<<MeterData(history[i])>> : i \in LastMeterRows(history, company_name, model, serial)}

(***************************************************************************)
(* export_to_excel                                                         *)
(***************************************************************************)
\* AddToGroup with the record put at the head of its group
AddToGroupAtHead(groups, row) ==
    IF \E g \in 1..Len(groups) : groups[g].company_name = row.company_name
    THEN [g \in 1..Len(groups) |->
            IF groups[g].company_name = row.company_name
            THEN [groups[g] EXCEPT !.rows = <<row>> \o @]
            ELSE groups[g]]
    ELSE Append(groups, [company_name |-> row.company_name, rows |-> <<row>>])

\* one pass of the grouping loop: customer_groups keeps its keys in the
\* order they were first inserted
AddToGroup(groups, row) ==
    IF \E g \in 1..Len(groups) : groups[g].company_name = row.company_name
    THEN [g \in 1..Len(groups) |->
            IF groups[g].company_name = row.company_name
            THEN [groups[g] EXCEPT !.rows = Append(@, row)]
            ELSE groups[g]]
    ELSE Append(groups, [company_name |-> row.company_name, rows |-> <<row>>])

RECURSIVE GroupRows(_, _)
GroupRows(groups, rows) ==
    IF rows = << >> THEN groups
    ELSE GroupRows(AddToGroup(groups, Head(rows)), Tail(rows))

customer_groups(rows) == GroupRows(<< >>, rows)

\* the detail rows in the order they are written to the sheet
RECURSIVE WrittenRows(_)
WrittenRows(groups) ==
    IF groups = << >> THEN << >>
    ELSE Head(groups).rows \o WrittenRows(Tail(groups))

ZeroTotals == [total_over_fee |-> 0, total_basic_fee |-> 0, total_all_fee |-> 0]

\* AddToTotals with the color overage fee left out of total_over_fee
AddToTotalsBlackOnly(totals, row) ==
    [total_over_fee |-> totals.total_over_fee + row.over_fee_black,
     total_basic_fee |-> totals.total_basic_fee + row.basic_fee,
     total_all_fee |-> totals.total_all_fee + row.total_fee]

\* the three accumulations made for each detail row
AddToTotals(totals, row) ==
    [total_over_fee |-> totals.total_over_fee + row.over_fee_black + row.over_fee_color,
     total_basic_fee |-> totals.total_basic_fee + row.basic_fee,
     total_all_fee |-> totals.total_all_fee + row.total_fee]

RECURSIVE Accumulate(_, _)
Accumulate(totals, rows) ==
    IF rows = << >> THEN totals
    ELSE Accumulate(AddToTotals(totals, Head(rows)), Tail(rows))

\* data_list[0]['first_date'][:7] and ['second_date'][:7] raise on NULL
SliceRaises(row) == row.first_date.kind # "str" \/ row.second_date.kind # "str"

ExportFailure(msg) == [success |-> FALSE, error |-> msg]

\* ExportEmpty with an empty ledger returned as a success
ExportEmptyLedger ==
    [success |-> TRUE, error |-> "none", groups |-> << >>,
     total_basic_fee |-> 0, total_over_fee |-> 0, total_all_fee |-> 0]

\* the result for an empty data_list
ExportEmpty == ExportFailure(ErrNoData)

\* rows: the result of get_all_calculations().  For a non-empty rows the
\* result carries, beside success and error, the values customer_groups
\* and the three accumulators hold when the function leaves; the function
\* returns the totals only on success, when the sheet holding the groups
\* is saved (saving the workbook is taken to succeed).
export_to_excel(rows) ==
    IF rows = << >> THEN ExportEmpty
    ELSE LET groups == customer_groups(rows)
             totals == Accumulate(ZeroTotals, WrittenRows(groups))
             ok == ~SliceRaises(rows[1])
         IN  [success |-> ok,
              error |-> IF ok THEN "none" ELSE "TypeError",
              groups |-> groups,
              total_basic_fee |-> totals.total_basic_fee,
              total_over_fee |-> totals.total_over_fee,
              total_all_fee |-> totals.total_all_fee]

(***************************************************************************)
(* Requests                                                                *)
(***************************************************************************)
\* a complete, well-formed request
BaseRequest ==
    [company_name |-> JStr(<<"A">>),
     invoice_type |-> JStr(<<"p", "u">>),
     location |-> JStr(<<"L">>),
     ip |-> JStr(<<"1", ".", "2">>),
     model |-> JStr(<<"M">>),
     serial |-> JStr(<<"S">>),
     first_date |-> JStr(<<"2", "0", "2", "6", ".", "0", "1", ".", "0", "1">>),
     second_date |-> JStr(<<"2", "0", "2", "6", ".", "0", "2", ".", "0", "1">>),
     first_black |-> JInt(1),
     first_color |-> JInt(0),
     second_black |-> JInt(2),
     second_color |-> JInt(1),
     package_black |-> JInt(0),
     package_color |-> JInt(0),
     basic_fee |-> JFloat(2),
     black_price |-> JFloat(4),
     color_price |-> JFloat(4),
     period |-> JStr(<<"Q", "1">>),
     customer_id |-> JInt(1)]

Fields == DOMAIN BaseRequest

EmptyRequest == [f \in Fields |-> JMissing]

\* base with the fields of absent removed
Without(base, absent) == [f \in Fields |-> IF f \in absent THEN JMissing ELSE base[f]]

MaxReading == 2
MaxPackage == 1
MaxMissing == 2

Readings == {JInt(i) : i \in 0..MaxReading}
Packages == {JInt(i) : i \in 0..MaxPackage}

\* values of the wrong shape for a numeric field: null, a fractional
\* number, and strings holding an integer, a decimal and no number
OddNumerics ==
    {JNull, JFloat(Scale + Scale \div 2), JStr(<<" ", "2">>),
     JStr(<<"1", ".", "5">>), JStr(<<"x">>)}

(***************************************************************************)
(* validate_inputs applied to one request                                  *)
(***************************************************************************)
ValidateNames ==
    {JMissing, JNull, JInt(5), JStr(<< >>), JStr(<<" ">>), JStr(<<"A">>),
     JStr(<<" ", "A", " ">>)}

ValidateBlackReadings == Readings \cup OddNumerics \cup {JMissing, JFloat(Scale \div 2)}
ValidateColorReadings == Readings \cup {JMissing, JStr(<<"1", ".", "5">>)}

\* any name with any readings, allowances and basic fee
InitValidate ==
    /\ \E n \in ValidateNames,
          fb \in ValidateBlackReadings, sb \in ValidateBlackReadings,
          fc \in ValidateColorReadings, sc \in ValidateColorReadings,
          pb \in {JMissing, JStr(<<"x">>)},
          pcol \in {JInt(0), JNull},
          bf \in {JFloat(2), JStr(<<"1", ".", "5">>)} :
            data = [EmptyRequest EXCEPT !["company_name"] = n,
                                        !["first_black"] = fb, !["second_black"] = sb,
                                        !["first_color"] = fc, !["second_color"] = sc,
                                        !["package_black"] = pb, !["package_color"] = pcol,
                                        !["basic_fee"] = bf]
    /\ vres = VPending
    /\ cres = CPending
    /\ data_list = << >>
    /\ eres = EPending
    /\ StoreInit
    /\ ApiInit

Validate ==
    /\ vres = VPending
    /\ vres' = validate_inputs(data)
    /\ UNCHANGED <<data, cres, data_list, eres, storeVars, apiVars>>

NextValidate == Validate

SpecValidate == InitValidate /\ [][NextValidate]_vars

(***************************************************************************)
(* Claims about validate_inputs (under SpecValidate)                       *)
(***************************************************************************)
Validated == vres.raised # "pending"
Returned == Validated /\ vres.raised = "none"

\* rule 1 of the validator: the company name, trimmed, is not empty
NameNonEmpty(d) ==
    /\ d["company_name"].kind = "str"
    /\ Strip(d["company_name"].s) # << >>

\* a field value that is a number or text holding one (absent counts as 0)
ParsesAsNumber(v) ==
    \/ v.kind \in {"missing", "int", "float"}
    \/ v.kind = "str" /\ IsFloatLiteral(v.s)

\* rule 2 of the validator
AllNumericParse(d) ==
    \A i \in 1..Len(numeric_fields) : ParsesAsNumber(d[numeric_fields[i]])

\* the number a field holds, in units of 1/Scale
NumberOf(v) ==
    CASE v.kind = "missing" -> 0
      [] v.kind = "str" -> FloatLiteralVal(v.s)
      [] OTHER -> v.m

InSeq(x, s) == \E i \in 1..Len(s) : s[i] = x

\* C3: validate_inputs never raises: whatever the type of each field's
\* value, it returns {valid: true, warnings} or {valid: false, error}.
C3_NeverRaises == Validated => vres.raised = "none"

\* C4: whenever validate_inputs returns, valid is true exactly when the
\* trimmed company_name is non-empty and each of the seven numeric fields
\* parses as a number; an empty company_name is rejected with the
\* company-name message even if a numeric field is unparsable.
C4_ValidExactlyWhenParsable ==
    Returned =>
        /\ vres.valid <=> (NameNonEmpty(data) /\ AllNumericParse(data))
        /\ ~NameNonEmpty(data) => vres.error = ErrCompanyEmpty

\* C5: a request that passes rules 1 and 2 is valid, with the black
\* warning iff second_black < first_black and the color warning iff
\* second_color < first_color.
C5_WarningsIffDecreasing ==
    (Validated /\ NameNonEmpty(data) /\ AllNumericParse(data)) =>
        /\ vres.raised = "none" /\ vres.valid
        /\ InSeq(WarnBlack, vres.warnings)
             <=> NumberOf(data["second_black"]) < NumberOf(data["first_black"])
        /\ InSeq(WarnColor, vres.warnings)
             <=> NumberOf(data["second_color"]) < NumberOf(data["first_color"])

(***************************************************************************)
(* calculate_cost applied to one request                                   *)
(***************************************************************************)
\* the fields calculate_cost converts with int() and with float()
int_fields ==
    {"first_black", "first_color", "second_black", "second_color",
     "package_black", "package_color"}
float_fields == {"basic_fee", "black_price", "color_price"}

\* prices below a cent per page, and the configured ones
BlackPrices == {JFloat(4), JFloat(black_overprint_price)}
ColorPrices == {JFloat(4), JFloat(6), JFloat(color_overprint_price)}
BasicFees == {JInt(0), JFloat(2), JInt(50)}

\* integer readings and allowances, second below first included
NumericRequests ==
    {[BaseRequest EXCEPT !["first_black"] = fb, !["second_black"] = sb,
                         !["first_color"] = fc, !["second_color"] = sc,
                         !["package_black"] = pb, !["package_color"] = pcol,
                         !["black_price"] = bp, !["color_price"] = cp,
                         !["basic_fee"] = bf] :
        fb \in Readings, sb \in Readings, fc \in Readings, sc \in Readings,
        pb \in Packages, pcol \in Packages,
        bp \in BlackPrices, cp \in ColorPrices, bf \in BasicFees}

\* requests with up to MaxMissing keys absent, and the empty mapping
MaskedRequests ==
    {Without(BaseRequest, absent) :
        absent \in {a \in SUBSET Fields : Cardinality(a) <= MaxMissing}}
    \cup {EmptyRequest}

\* requests with one numeric field of the wrong shape
OddRequests ==
    {[BaseRequest EXCEPT ![f] = v] : f \in int_fields \cup float_fields, v \in OddNumerics}

CostRequests == NumericRequests \cup MaskedRequests \cup OddRequests

InitCost ==
    /\ data \in CostRequests
    /\ vres = VPending
    /\ cres = CPending
    /\ data_list = << >>
    /\ eres = EPending
    /\ StoreInit
    /\ ApiInit

Calculate ==
    /\ cres = CPending
    /\ cres' = calculate_cost(data, DEFAULT_CONFIG, 1)
    /\ UNCHANGED <<data, vres, data_list, eres, storeVars, apiVars>>

NextCost == Calculate

SpecCost == InitCost /\ [][NextCost]_vars

(***************************************************************************)
(* Claims about calculate_cost (under SpecCost)                            *)
(***************************************************************************)
Calculated == cres.error # "pending"

\* the six readings and allowances are JSON integers
IntegerReadings(d) == \A f \in int_fields : d[f].kind = "int"

IntOf(v) == v.m \div Scale

\* basic_fee and the two prices are numbers, text holding one, or absent
FeesCoerce(d) == \A f \in float_fields : ParsesAsNumber(d[f])

\* C1: for integer readings and allowances (second < first included) the
\* calculation succeeds whenever the fee fields coerce, and then
\* used = second - first and over = max(used - package, 0) for black and
\* for color, so over is never negative even when used is.
C1_UsedAndOver ==
    (Calculated /\ IntegerReadings(data)) =>
        /\ cres.success <=> FeesCoerce(data)
        /\ cres.success =>
            LET r == cres.data
                ub == IntOf(data["second_black"]) - IntOf(data["first_black"])
                uc == IntOf(data["second_color"]) - IntOf(data["first_color"])
                pb == IntOf(data["package_black"])
                pcol == IntOf(data["package_color"])
            IN  /\ r.used_black = ub
                /\ r.used_color = uc
                /\ r.over_black = (IF ub - pb > 0 THEN ub - pb ELSE 0)
                /\ r.over_color = (IF uc - pcol > 0 THEN uc - pcol ELSE 0)
                /\ r.over_black >= 0
                /\ r.over_color >= 0

\* a decreasing black reading: used is negative, over is floored at 0
C1_Witness ==
    /\ Calculated /\ IntegerReadings(data) /\ cres.success
    /\ cres.data.used_black < 0
    /\ cres.data.over_black = 0
    /\ cres.data.over_color > 0

\* the multiple of a cent nearest to u, an exact half going to the even cent
NearestCent(u) ==
    CHOOSE c \in (u - CentUnits)..(u + CentUnits) :
        /\ c % CentUnits = 0
        /\ LET d == IF u >= c THEN u - c ELSE c - u
           IN  /\ 2 * d <= CentUnits
               /\ 2 * d = CentUnits => (c \div CentUnits) % 2 = 0

\* C2: for every successful calculation total_fee is
\* round(round(over_black * black_price, 2) + round(over_color * color_price, 2)
\*       + basic_fee, 2): each overage fee is rounded on its own first.
C2_TwoStageRounding ==
    (Calculated /\ cres.success) =>
        LET r == cres.data
        IN  /\ r.over_fee_black = NearestCent(r.over_black * r.black_price)
            /\ r.over_fee_color = NearestCent(r.over_color * r.color_price)
            /\ r.total_fee =
                 NearestCent(NearestCent(r.over_black * r.black_price)
                             + NearestCent(r.over_color * r.color_price)
                             + r.basic_fee)

\* a calculation whose total differs from rounding the unrounded sum once
C2_Witness ==
    /\ Calculated /\ cres.success
    /\ cres.data.total_fee #
         NearestCent(cres.data.over_black * cres.data.black_price
                     + cres.data.over_color * cres.data.color_price
                     + cres.data.basic_fee)

\* the defaults C7 states for fields other than the two dates
OtherDefaultsHold ==
    LET r == cres.data
    IN  /\ \A f \in int_fields \cup {"basic_fee"} :
              data[f].kind = "missing" => r[f] = 0
        /\ \A f \in {"company_name", "location", "ip", "model", "serial"} :
              data[f].kind = "missing" => r[f] = JStr(<< >>)
        /\ data["black_price"].kind = "missing"
              => r.black_price = DEFAULT_CONFIG.black_overprint_price
        /\ data["color_price"].kind = "missing"
              => r.color_price = DEFAULT_CONFIG.color_overprint_price
        /\ data["period"].kind = "missing"
              => r.period = JStr(DEFAULT_CONFIG.default_period)

\* C7 as stated: every absent field takes its default, a missing numeric
\* field 0, a missing string field (first_date and second_date included)
\* the empty string, missing prices and period the configured ones.
C7_AllDefaults ==
    (Calculated /\ cres.success) =>
        /\ OtherDefaultsHold
        /\ \A f \in {"first_date", "second_date"} :
              data[f].kind = "missing" => cres.data[f] = JStr(<< >>)

\* C7 (amended): as stated, except that a missing first_date becomes
\* "2025.10.31" and a missing second_date "2025.12.31".
C7_DefaultsWithDates ==
    (Calculated /\ cres.success) =>
        /\ OtherDefaultsHold
        /\ data["first_date"].kind = "missing"
              => cres.data.first_date = JStr(DefaultFirstDate)
        /\ data["second_date"].kind = "missing"
              => cres.data.second_date = JStr(DefaultSecondDate)

\* the empty mapping: every field takes its default
C7_Witness ==
    /\ Calculated /\ cres.success
    /\ \A f \in Fields : data[f].kind = "missing"
    /\ cres.data.first_date = JStr(DefaultFirstDate)
    /\ cres.data.first_black = 0
    /\ cres.data.black_price = black_overprint_price

(***************************************************************************)
(* export_to_excel applied to one list of stored rows                      *)
(***************************************************************************)
MaxRows == 3

\* requests whose records differ in company, fees and dates
ExportRequests ==
    {[BaseRequest EXCEPT !["company_name"] = JStr(<<c>>),
                         !["second_black"] = JInt(v[1]), !["basic_fee"] = JInt(v[2]),
                         !["black_price"] = JFloat(black_overprint_price),
                         !["color_price"] = cp] :
        c \in {"A", "B"}, v \in {<<2, 10>>, <<3, 20>>},
        cp \in {JFloat(4), JFloat(color_overprint_price)}}
    \cup {[BaseRequest EXCEPT !["company_name"] = JStr(<<c>>), !["first_date"] = JNull] :
            c \in {"A", "B"}}

\* the lists get_all_calculations can return: the record of any request
\* at any place, the most recently calculated row first
ExportLists ==
    UNION {{[i \in 1..n |->
               HistoryRow(calculate_cost(rq[i], DEFAULT_CONFIG, n + 1 - i).data, n + 1 - i)] :
              rq \in [1..n -> ExportRequests]} : n \in 0..MaxRows}

InitExport ==
    /\ data = EmptyRequest
    /\ vres = VPending
    /\ cres = CPending
    /\ data_list \in ExportLists
    /\ eres = EPending
    /\ StoreInit
    /\ ApiInit

Export ==
    /\ eres = EPending
    /\ eres' = export_to_excel(data_list)
    /\ UNCHANGED <<data, vres, cres, data_list, storeVars, apiVars>>

NextExport == Export

SpecExport == InitExport /\ [][NextExport]_vars

(***************************************************************************)
(* Claims about the export (under SpecExport)                              *)
(***************************************************************************)
Exported == eres.error # "pending"

\* the place of a row in data_list
PlaceOf(row) == CHOOSE i \in 1..Len(data_list) : data_list[i] = row

GroupSlots(g) == {<<a, k>> \in (1..Len(g)) \X (1..Len(data_list)) : k <= Len(g[a].rows)}

\* C8: the export groups a non-empty list of records by company_name as
\* a stable partition: groups in the order their company_name is first
\* seen, each record in exactly one group, records of a group in their
\* input order.
C8_StablePartition ==
    (Exported /\ data_list # << >>) =>
        LET g == eres.groups
        IN  /\ \A a \in 1..Len(g) :
                  /\ g[a].rows # << >>
                  /\ \A k \in 1..Len(g[a].rows) :
                        g[a].rows[k].company_name = g[a].company_name
            /\ \A a, b \in 1..Len(g) :
                  a # b => g[a].company_name # g[b].company_name
            /\ \A i \in 1..Len(data_list) :
                  Cardinality({sl \in GroupSlots(g) :
                                  g[sl[1]].rows[sl[2]] = data_list[i]}) = 1
            /\ Cardinality(GroupSlots(g)) = Len(data_list)
            /\ \A a \in 1..Len(g) : \A k, l \in 1..Len(g[a].rows) :
                  k < l => PlaceOf(g[a].rows[k]) < PlaceOf(g[a].rows[l])
            /\ \A a, b \in 1..Len(g) :
                  a < b => PlaceOf(g[a].rows[1]) < PlaceOf(g[b].rows[1])

\* the records [(A, 1), (B, 1), (A, 2)] exported as [A: [1, 2], B: [1]]
C8_Witness ==
    /\ Exported /\ eres.success
    /\ Len(data_list) = 3
    /\ data_list[1].company_name = data_list[3].company_name
    /\ data_list[1].company_name # data_list[2].company_name
    /\ Len(eres.groups) = 2
    /\ eres.groups[1].rows = <<data_list[1], data_list[3]>>
    /\ eres.groups[2].rows = <<data_list[2]>>

RECURSIVE SumSeq(_)
\* the sum of a sequence of amounts
SumSeq(amounts) ==
    IF amounts = << >> THEN 0 ELSE Head(amounts) + SumSeq(Tail(amounts))

\* C9: the totals of an export of a non-empty list are sums over all
\* its records whatever their group, each record counted once:
\* total_basic_fee of basic_fee, total_over_fee of
\* over_fee_black + over_fee_color, total_all_fee of total_fee.
C9_TotalsOverAllRecords ==
    (Exported /\ data_list # << >>) =>
        /\ eres.total_basic_fee = SumSeq([i \in 1..Len(data_list) |-> data_list[i].basic_fee])
        /\ eres.total_over_fee = SumSeq([i \in 1..Len(data_list) |->
                    data_list[i].over_fee_black + data_list[i].over_fee_color])
        /\ eres.total_all_fee = SumSeq([i \in 1..Len(data_list) |-> data_list[i].total_fee])

\* a successful export of three records in two groups with both kinds of
\* overage fee
C9_Witness ==
    /\ Exported /\ eres.success
    /\ Len(data_list) = 3
    /\ Len(eres.groups) = 2
    /\ \E i \in 1..3 : data_list[i].over_fee_color > 0
    /\ eres.total_over_fee > 0
    /\ eres.total_basic_fee = data_list[1].basic_fee + data_list[2].basic_fee
                               + data_list[3].basic_fee

(***************************************************************************)
(* The server: /api/calculate, /api/export-excel, /api/clear-history       *)
(***************************************************************************)
MaxSubmissions == 2
MaxClock == 2

\* what a client posts: no customer_id, prices and invoice type as configured
ApiBase ==
    [Without(BaseRequest, {"customer_id", "invoice_type"}) EXCEPT
        !["black_price"] = JFloat(black_overprint_price),
        !["color_price"] = JFloat(color_overprint_price)]

\* two companies, increasing and decreasing readings, a NULL date, and
\* requests that are invalid, make the validator raise, or make
\* calculate_cost fail
ApiRequests ==
    {ApiBase,
     [ApiBase EXCEPT !["first_black"] = JInt(2), !["second_black"] = JInt(1)],
     [ApiBase EXCEPT !["company_name"] = JStr(<<"B">>), !["second_black"] = JInt(3)],
     [ApiBase EXCEPT !["company_name"] = JStr(<<"B">>), !["first_date"] = JNull],
     [ApiBase EXCEPT !["company_name"] = JStr(<<" ">>)],
     [ApiBase EXCEPT !["company_name"] = JNull],
     [ApiBase EXCEPT !["black_price"] = JStr(<<"x">>)]}

Response(op, status, request, body) ==
    [op |-> op, status |-> status, request |-> request, body |-> body]

ServerError == [success |-> FALSE, error |-> "server error"]

\* handlers at work, each of which may still insert one record
Busy == {p \in Procs : pc[p] # "idle"}

\* api_calculate, lines 742-750: validate_inputs raises
SubmitRaises(p, d) ==
    /\ pc[p] = "idle"
    /\ validate_inputs(d).raised # "none"
    /\ resp' = Response("calculate", 500, d, ServerError)
    /\ UNCHANGED <<coreVars, storeVars, now, pc, req, found>>

\* api_calculate, lines 748-750: the request is invalid
SubmitInvalid(p, d) ==
    /\ pc[p] = "idle"
    /\ LET validate_result == validate_inputs(d)
       IN  /\ validate_result.raised = "none"
           /\ ~validate_result.valid
           /\ resp' = Response("calculate", 200, d,
                               [success |-> FALSE, error |-> validate_result.error])
    /\ UNCHANGED <<coreVars, storeVars, now, pc, req, found>>

\* api_calculate, lines 748-755: the request is valid, the upsert begins
SubmitValid(p, d) ==
    /\ pc[p] = "idle"
    /\ history_seq + Cardinality(Busy) < MaxSubmissions
    /\ LET validate_result == validate_inputs(d)
       IN  validate_result.raised = "none" /\ validate_result.valid
    /\ pc' = [pc EXCEPT ![p] = "select"]
    /\ req' = [req EXCEPT ![p] = d]
    /\ UNCHANGED <<coreVars, storeVars, now, found, resp>>

\* api_calculate, line 756, with the assignment forgotten
SetCustomerIdDropped(d, id) == d

\* api_calculate, line 756: data['customer_id'] = customer_id
SetCustomerId(d, id) == [d EXCEPT !["customer_id"] = JInt(id)]

\* the ids of the customers rows with this company_name
IdsOf(name) == {customers[i].id : i \in {j \in 1..Len(customers) : customers[j].company_name = name}}

\* the UNIQUE constraint with nothing enforcing it
UniqueNotEnforced(name) == TRUE

\* customers.company_name is UNIQUE (line 59): an INSERT of this name is
\* accepted only while no row holds it
UniqueCompanyName(name) == IdsOf(name) = {}

\* add_or_update_customer, lines 123-124: the SELECT (0: no row)
UpsertSelect(p) ==
    /\ pc[p] = "select"
    /\ LET ids == IdsOf(Get(req[p], "company_name", JStr(<< >>)))
       IN  found' = [found EXCEPT ![p] = IF ids = {} THEN 0 ELSE CHOOSE i \in ids : TRUE]
    /\ pc' = [pc EXCEPT ![p] = "write"]
    /\ UNCHANGED <<coreVars, storeVars, now, req, resp>>

\* add_or_update_customer, lines 126-130 and 138-139: UPDATE, commit
UpsertUpdate(p) ==
    /\ pc[p] = "write"
    /\ found[p] # 0
    /\ customers' =
         [i \in 1..Len(customers) |->
            IF customers[i].id = found[p]
            THEN [customers[i] EXCEPT
                    !.invoice_type = Get(req[p], "invoice_type", JStr(DefaultInvoiceType))]
            ELSE customers[i]]
    /\ req' = [req EXCEPT ![p] = SetCustomerId(@, found[p])]
    /\ pc' = [pc EXCEPT ![p] = "calc"]
    /\ found' = [found EXCEPT ![p] = 0]
    /\ UNCHANGED <<coreVars, calculation_history, customer_seq, history_seq, now, resp>>

\* add_or_update_customer, lines 131-139: INSERT, commit
UpsertInsert(p) ==
    /\ pc[p] = "write"
    /\ found[p] = 0
    /\ UniqueCompanyName(Get(req[p], "company_name", JStr(<< >>)))
    /\ customers' =
         Append(customers,
                [id |-> customer_seq + 1,
                 company_name |-> Get(req[p], "company_name", JStr(<< >>)),
                 invoice_type |-> Get(req[p], "invoice_type", JStr(DefaultInvoiceType))])
    /\ customer_seq' = customer_seq + 1
    /\ req' = [req EXCEPT ![p] = SetCustomerId(@, customer_seq + 1)]
    /\ pc' = [pc EXCEPT ![p] = "calc"]
    /\ found' = [found EXCEPT ![p] = 0]
    /\ UNCHANGED <<coreVars, calculation_history, history_seq, now, resp>>

\* add_or_update_customer, lines 132-143, and api_calculate, 763-764: the
\* INSERT meets a row with this company_name (UNIQUE), the error is
\* re-raised and answered with status 500
UpsertConflict(p) ==
    /\ pc[p] = "write"
    /\ found[p] = 0
    /\ ~UniqueCompanyName(Get(req[p], "company_name", JStr(<< >>)))
    /\ resp' = Response("calculate", 500, req[p], ServerError)
    /\ pc' = [pc EXCEPT ![p] = "idle"]
    /\ req' = [req EXCEPT ![p] = NoRequest]
    /\ UNCHANGED <<coreVars, storeVars, now, found>>

\* api_calculate, lines 759-762: the record is calculated and inserted
CalcPersist(p) ==
    /\ pc[p] = "calc"
    /\ LET calc_result == calculate_cost(req[p], DEFAULT_CONFIG, now)
       IN  /\ calc_result.success
           /\ calculation_history' =
                 add_calculation(calculation_history, calc_result.data, history_seq + 1)
           /\ resp' = Response("calculate", 200, req[p], calc_result)
    /\ history_seq' = history_seq + 1
    /\ pc' = [pc EXCEPT ![p] = "idle"]
    /\ req' = [req EXCEPT ![p] = NoRequest]
    /\ UNCHANGED <<coreVars, customers, customer_seq, now, found>>

\* api_calculate, lines 759-762: calculate_cost fails, nothing is inserted
CalcFails(p) ==
    /\ pc[p] = "calc"
    /\ LET calc_result == calculate_cost(req[p], DEFAULT_CONFIG, now)
       IN  /\ ~calc_result.success
           /\ resp' = Response("calculate", 200, req[p], calc_result)
    /\ pc' = [pc EXCEPT ![p] = "idle"]
    /\ req' = [req EXCEPT ![p] = NoRequest]
    /\ UNCHANGED <<coreVars, storeVars, now, found>>

\* api_export_excel over the rows stored now
ExportHistory ==
    /\ \E rows \in get_all_calculations(calculation_history) :
          resp' = Response("export", 200, NoRequest, export_to_excel(rows))
    /\ UNCHANGED <<coreVars, storeVars, now, pc, req, found>>

\* what a client posts to /api/get-last-meter-data: the printer of the
\* submissions of company A, the one of company B, another model, and a
\* blank model
MeterRequests ==
    {[company_name |-> JStr(<<c>>), model |-> JStr(m), serial |-> JStr(<<"S">>)] :
        c \in {"A", "B"}, m \in {<<"M">>}}
    \cup {[company_name |-> JStr(<<"A">>), model |-> JStr(m), serial |-> JStr(<<"S">>)] :
            m \in {<<"N">>, <<" ">>}}

\* api_get_last_meter_data over the rows stored now (the three keys are
\* text in every request drawn)
LookupLast(d) ==
    /\ LET company_name == Strip(Get(d, "company_name", JStr(<< >>)).s)
           model == Strip(Get(d, "model", JStr(<< >>)).s)
           serial == Strip(Get(d, "serial", JStr(<< >>)).s)
       IN  IF company_name = << >> \/ model = << >> \/ serial = << >>
           THEN resp' = Response("lookup", 400, d,
                                 [success |-> FALSE, error |-> ErrMeterKeyEmpty])
           ELSE \E meter_data \in get_last_meter_data(calculation_history,
                                                       company_name, model, serial) :
                   resp' = IF meter_data # << >>
                           THEN Response("lookup", 200, d,
                                         [success |-> TRUE, error |-> "none",
                                          data |-> meter_data[1]])
                           ELSE Response("lookup", 200, d,
                                         [success |-> FALSE, error |-> ErrNoMeterData])
    /\ UNCHANGED <<coreVars, storeVars, now, pc, req, found>>

\* clear_history: DELETE FROM calculation_history
ClearHistory ==
    /\ calculation_history' = << >>
    /\ resp' = Response("clear", 200, NoRequest, [success |-> TRUE, error |-> "none"])
    /\ UNCHANGED <<coreVars, customers, customer_seq, history_seq, now, pc, req, found>>

\* a second passes
Tick ==
    /\ now < MaxClock
    /\ now' = now + 1
    /\ UNCHANGED <<coreVars, storeVars, pc, req, found, resp>>

Init ==
    /\ data = EmptyRequest
    /\ vres = VPending
    /\ cres = CPending
    /\ data_list = << >>
    /\ eres = EPending
    /\ StoreInit
    /\ ApiInit

Next ==
    \/ \E p \in Procs, d \in ApiRequests : SubmitRaises(p, d)
    \/ \E p \in Procs, d \in ApiRequests : SubmitInvalid(p, d)
    \/ \E p \in Procs, d \in ApiRequests : SubmitValid(p, d)
    \/ \E p \in Procs : UpsertSelect(p)
    \/ \E p \in Procs : UpsertUpdate(p)
    \/ \E p \in Procs : UpsertInsert(p)
    \/ \E p \in Procs : UpsertConflict(p)
    \/ \E p \in Procs : CalcPersist(p)
    \/ \E p \in Procs : CalcFails(p)
    \/ ExportHistory
    \/ ClearHistory
    \/ Tick

Spec == Init /\ [][Next]_vars

(***************************************************************************)
(* The server with its requests served one after another by one handler,  *)
(* and /api/get-last-meter-data among them                                 *)
(***************************************************************************)
Serial == "h1"

NextSerial ==
    \/ \E d \in ApiRequests : SubmitRaises(Serial, d)
    \/ \E d \in ApiRequests : SubmitInvalid(Serial, d)
    \/ \E d \in ApiRequests : SubmitValid(Serial, d)
    \/ UpsertSelect(Serial)
    \/ UpsertUpdate(Serial)
    \/ UpsertInsert(Serial)
    \/ CalcPersist(Serial)
    \/ CalcFails(Serial)
    \/ ExportHistory
    \/ \E d \in MeterRequests : LookupLast(d)
    \/ ClearHistory
    \/ Tick

SpecSerial == Init /\ [][NextSerial]_vars

(***************************************************************************)
(* Claims about the server (under Spec and SpecSerial)                     *)
(***************************************************************************)
\* resp is the last response sent and resp.request the body it answers.
\* Every step that changes calculation_history (CalcPersist, ClearHistory)
\* sends a response of its own, so while resp is the response of an
\* export or a lookup the table is as that request read it.

\* C6: the calculate operation returns the validator's warnings: a
\* successful response to a submission with second_black < first_black
\* or second_color < first_color carries the BillingRecord as data and
\* the corresponding warning in its warnings list.
C6_WarningsReturned ==
    (resp.op = "calculate" /\ resp.body.success) =>
        /\ resp.body.data = calculate_cost(resp.request, DEFAULT_CONFIG,
                                           resp.body.data.calculate_time).data
        /\ NumberOf(resp.request["second_black"]) < NumberOf(resp.request["first_black"])
              => InSeq(WarnBlack, resp.body.warnings)
        /\ NumberOf(resp.request["second_color"]) < NumberOf(resp.request["first_color"])
              => InSeq(WarnColor, resp.body.warnings)

\* C10: whenever calculation_history is empty, initially or after
\* clear-history with no later successful calculation, export returns
\* the failure with the no-records error, never a success.
C10_EmptyExportFails ==
    (resp.op = "export" /\ calculation_history = << >>) =>
        /\ ~resp.body.success
        /\ resp.body.error = ErrNoData

\* an export answered with the no-records error after records had been
\* stored and cleared
C10_Witness ==
    /\ resp.op = "export"
    /\ calculation_history = << >>
    /\ history_seq > 0
    /\ ~resp.body.success
    /\ resp.body.error = ErrNoData

\* the customers rows with this id
CustomersWithId(id) == {i \in 1..Len(customers) : customers[i].id = id}

\* C11: in every reachable state each row of calculation_history has a
\* customer_id that is the id of an existing customers row with the same
\* company_name (calculate upserts the customer before it persists, and
\* nothing deletes a customer).
C11_CustomerResolvable ==
    \A i \in 1..Len(calculation_history) :
        \E j \in CustomersWithId(calculation_history[i].customer_id) :
            customers[j].company_name = calculation_history[i].company_name

\* two records stored for two customers, one of them inserted by the
\* second submission
C11_Witness ==
    /\ Len(calculation_history) = 2
    /\ Len(customers) = 2
    /\ calculation_history[1].customer_id # calculation_history[2].customer_id
    /\ calculation_history[2].customer_id = 2
    /\ C11_CustomerResolvable

\* C12: under any interleaving of concurrent add_or_update_customer
\* calls (a SELECT, then an UPDATE or INSERT) the customers table never
\* holds two rows with the same company_name.
C12_NoDuplicateCustomer ==
    \A i, j \in 1..Len(customers) :
        i # j => customers[i].company_name # customers[j].company_name

\* a handler whose SELECT found no row stands before its INSERT while
\* the other handler has already inserted the same company_name
C12_Witness ==
    \E p \in Procs :
        /\ pc[p] = "write"
        /\ found[p] = 0
        /\ Cardinality(IdsOf(req[p]["company_name"])) = 1

\* the submission resp answers passes validation and its fee calculation
\* succeeds
Persistable(d) ==
    /\ validate_inputs(d).raised = "none"
    /\ validate_inputs(d).valid
    /\ calculate_cost(d, DEFAULT_CONFIG, now).success

\* C13: every calculate submission that passes validation and whose fee
\* calculation succeeds is answered with success and stored as one
\* record, also when two submissions for the same not-yet-known
\* company_name are processed concurrently: neither fails because of the
\* other.
C13_PersistedIndependently ==
    (resp.op = "calculate" /\ Persistable(resp.request)) =>
        /\ resp.status = 200
        /\ resp.body.success
        /\ Cardinality({i \in 1..Len(calculation_history) :
                          calculation_history[i] = HistoryRow(resp.body.data, history_seq)}) = 1

\* the stored rows with exactly the keys of a lookup request
Matching(d) ==
    {i \in 1..Len(calculation_history) :
        /\ calculation_history[i].company_name = d["company_name"]
        /\ calculation_history[i].model = d["model"]
        /\ calculation_history[i].serial = d["serial"]}

\* the row persisted last: rows stand in the order they were inserted
LastOf(rows) == CHOOSE i \in rows : \A j \in rows : j <= i

\* C14: after any sequence of calculate and clear-history operations
\* the lookup returns second_black, second_color and second_date of the
\* most recently persisted record with exactly the company_name, model
\* and serial asked for, and not-found exactly when no such record is
\* stored, also when several matching records were calculated within
\* the same second.
C14_LookupReturnsLatest ==
    resp.op = "lookup" =>
        LET rows == Matching(resp.request)
        IN  IF rows = {}
            THEN ~resp.body.success
            ELSE /\ resp.body.success
                 /\ resp.body.data =
                      [last_black |-> calculation_history[LastOf(rows)].second_black,
                       last_color |-> calculation_history[LastOf(rows)].second_color,
                       last_date |-> calculation_history[LastOf(rows)].second_date]

\* the steps that change calculation_history
HistoryAppended ==
    /\ Len(calculation_history') = Len(calculation_history) + 1
    /\ SubSeq(calculation_history', 1, Len(calculation_history)) = calculation_history

HistoryCleared == calculation_history # << >> /\ calculation_history' = << >>

\* every customers row is still there, with its id and company_name
CustomersKept ==
    /\ Len(customers') >= Len(customers)
    /\ \A i \in 1..Len(customers) :
          /\ customers'[i].id = customers[i].id
          /\ customers'[i].company_name = customers[i].company_name

\* C15: a stored record is never changed: every step leaves the rows of
\* calculation_history as they are, except that a successful calculate
\* appends one row and clear-history removes all rows; clear-history
\* leaves customers unchanged, and no step removes a customer.
C15_RecordsImmutable ==
    [][/\ \/ calculation_history' = calculation_history
           \/ (HistoryAppended /\ resp'.op = "calculate" /\ resp'.body.success)
           \/ (HistoryCleared /\ resp'.op = "clear")
        /\ (HistoryCleared => customers' = customers)
        /\ CustomersKept]_vars

\* a record stored after an earlier one was cleared: the table holds the
\* second record only, and its customer is still there
C15_Witness ==
    /\ Len(calculation_history) = 1
    /\ history_seq = 2
    /\ calculation_history[1].id = 2
    /\ customers # << >>
    /\ resp.op = "calculate" /\ resp.body.success

\* a step in which a calculate submission is answered with success: false
AnswersFailure ==
    /\ resp' # resp
    /\ resp'.op = "calculate"
    /\ ~resp'.body.success

\* C16: a calculate submission answered with success: false leaves the
\* store unchanged, whether the validator or calculate_cost rejects it:
\* the answering step changes neither table, and the handler answering
\* has not committed an UPDATE or INSERT of customers before (it does
\* not stand after add_or_update_customer).
C16_FailureLeavesStore ==
    [][AnswersFailure =>
          /\ customers' = customers
          /\ calculation_history' = calculation_history
          /\ \A p \in Procs : pc'[p] # pc[p] => pc[p] # "calc"]_vars

====
